---- MODULE Spec2Model ----
(***************************************************************************)
(* Federated VAE training: the client protocol handler of client.py        *)
(* (get_parameters / set_parameters / fit / evaluate over one live model)  *)
(* and the coordinator's FedAvg round of server.py.                        *)
(*                                                                         *)
(* A tensor is a record [shape, val]: its shape and its numeric contents.  *)
(* A numpy array is a record [base, shape, val]: base = 0 when the array   *)
(* owns its data, base = i when it is a view of the storage of the i-th    *)
(* tensor of the live model (Tensor.numpy() shares memory on the CPU).     *)
(***************************************************************************)
EXTENDS Integers, Sequences, FiniteSets, TLC

VARIABLES weights, pc, request, response, steps, epoch, remaining,
          epochs, trainN, testN, results, failures, global, srv

vars == <<weights, pc, request, response, steps, epoch, remaining,
          epochs, trainN, testN, results, failures, global, srv>>

clientVars == <<weights, pc, request, response, steps, epoch, remaining,
                epochs, trainN, testN>>

serverVars == <<results, failures, global, srv>>

----------------------------------------------------------------------------
(* Bounds of the model *)

MaxVal == 1
MaxEpochs == 2
MaxClients == 2
MaxUpd == 3

(* Program constants *)

BatchSize == 128

ParamShapes == <<2, 1>>

NumParams == Len(ParamShapes)

TrainSizes == {256, 300}

TestSizes == {200}

SampleCounts == {100, 300}

Vals == 0..MaxVal

Min(a, b) == IF a < b THEN a ELSE b

----------------------------------------------------------------------------
(* Tensors, arrays, parameter vectors *)

Tensor(s, v) == [shape |-> s, val |-> v]

\* the shapes a supplied tensor can have: the declared ones, so that a tensor
\* offered for one slot can carry the shape of another
Shapes == {ParamShapes[i] : i \in 1..Len(ParamShapes)}

Tensors == [shape : Shapes, val : Vals]

\* every state the live model can be in: one tensor per declared slot
ModelStates == {w \in [1..NumParams -> Tensors] :
                  \A i \in 1..NumParams : w[i].shape = ParamShapes[i]}

\* vectors a caller can supply: shorter than the model, of its length (with
\* any shapes), and a well-shaped vector followed by one surplus element
InputVectors ==
  UNION {[1..n -> Tensors] : n \in 1..NumParams}
    \cup {Append(P, Tensor(1, 0)) : P \in ModelStates}

\* val.cpu().numpy() of the i-th state_dict entry: a view of the live storage
Numpy(w, i) == [base |-> i, shape |-> w[i].shape, val |-> 0]

\* the contents seen through an array now
Read(w, a) == IF a.base = 0 THEN Tensor(a.shape, a.val)
              ELSE Tensor(a.shape, w[a.base].val)

ReadVec(w, arrs) == [i \in 1..Len(arrs) |-> Read(w, arrs[i])]

get_parameters_short(w) == [i \in 1..(NumParams - 1) |-> Numpy(w, i)]

get_parameters(w) == [i \in 1..NumParams |-> Numpy(w, i)]

\* zip(net.state_dict().keys(), parameters): stops at the shorter of the two
ZipLen(P) == Min(NumParams, Len(P))

\* net.load_state_dict(state_dict, strict=True): every key whose tensor has the
\* declared shape is copied in place; size mismatches and missing keys are
\* collected and raised after the copies
LoadStateDict(w, P) ==
  LET k == ZipLen(P)
      fits(i) == i <= k /\ P[i].shape = ParamShapes[i]
  IN [weights |-> [i \in 1..NumParams |->
                     IF fits(i) THEN Tensor(w[i].shape, P[i].val) ELSE w[i]],
      ok |-> \A i \in 1..NumParams : fits(i)]

set_parameters_skip_last(w, P) ==
  LET r == LoadStateDict(w, P)
  IN [weights |-> [i \in 1..NumParams |->
                     IF i = NumParams THEN w[i] ELSE r.weights[i]],
      ok |-> r.ok]

set_parameters(w, P) == LoadStateDict(w, P)

\* len(DataLoader(dataset, batch_size=128)): number of batches, last one kept
LoaderLen(n) == (n + BatchSize - 1) \div BatchSize

BatchTake_whole(rem) == rem

\* samples the next batch of an epoch takes out of the rem still unread
BatchTake(rem) == Min(BatchSize, rem)

----------------------------------------------------------------------------
(* Losses: a loss is the value of one pass of a metric function over a      *)
(* loader, on the weights it was run on (the noise source is seeded).       *)

NoLoss == <<>>

eval_backprop_loss(w, loader) == <<"backprop", loader, w>>

eval_reconstruction(w, loader) == <<"recon", loader, w>>

NoArrays == <<>>

Pending == [kind |-> "pending", params |-> NoArrays, n |-> 0,
            loss |-> NoLoss, metrics |-> {}]

Raised == [kind |-> "error", params |-> NoArrays, n |-> 0,
           loss |-> NoLoss, metrics |-> {}]

Done == [kind |-> "ok", params |-> NoArrays, n |-> 0,
         loss |-> NoLoss, metrics |-> {}]

ParamsResult(w) == [kind |-> "params", params |-> get_parameters(w), n |-> 0,
                    loss |-> NoLoss, metrics |-> {}]

FitResult(w, n) == [kind |-> "fit", params |-> get_parameters(w),
                    n |-> LoaderLen(n), loss |-> NoLoss, metrics |-> {}]

EvalResult_trainloss(trn, tst, trnRec, tstRec, n) ==
  [kind |-> "eval", params |-> NoArrays, n |-> LoaderLen(n), loss |-> trn,
   metrics |-> {<<"Training backprop loss", trn>>,
                <<"Testing backprop loss", tst>>,
                <<"Training recon loss", trnRec>>,
                <<"Testing recon loss", tstRec>>}]

EvalResult(trn, tst, trnRec, tstRec, n) ==
  [kind |-> "eval", params |-> NoArrays, n |-> LoaderLen(n), loss |-> tst,
   metrics |-> {<<"Training backprop loss", trn>>,
                <<"Testing backprop loss", tst>>,
                <<"Training recon loss", trnRec>>,
                <<"Testing recon loss", tstRec>>}]

NoRequest == [op |-> "none", vec |-> <<>>, src |-> "none", config |-> 0]

\* the config mapping of a round request: 0 is the empty mapping, k > 0 is
\* the mapping {"epochs": k}
Configs == {0, MaxEpochs + 1}

----------------------------------------------------------------------------
(* Client process *)

ClientInit ==
  /\ weights \in ModelStates
  /\ pc = "Idle"
  /\ request = NoRequest
  /\ response = Pending
  /\ steps = 0
  /\ epoch = 0
  /\ remaining = 0
  /\ epochs \in 1..MaxEpochs
  /\ trainN \in TrainSizes
  /\ testN \in TestSizes

ServerIdle ==
  /\ results = <<>>
  /\ failures = {}
  /\ global = <<>>
  /\ srv = "collect"

Init == ClientInit /\ ServerIdle

\* the vectors a caller can pass: any fresh vector, or the arrays the last
\* call returned (torch.tensor(v) reads them at the time of the call)
Arguments ==
  {[vec |-> P, src |-> "fresh"] : P \in InputVectors}
    \cup (IF response.kind \in {"params", "fit"}
          THEN {[vec |-> ReadVec(weights, response.params), src |-> "get"]}
          ELSE {})

GetParameters ==
  /\ pc = "Idle"
  /\ response' = ParamsResult(weights)
  /\ UNCHANGED <<weights, pc, request, steps, epoch, remaining,
                 epochs, trainN, testN, serverVars>>

SetParameters ==
  /\ pc = "Idle"
  /\ \E a \in Arguments :
       LET r == set_parameters(weights, a.vec)
       IN /\ request' = [op |-> "set_parameters", vec |-> a.vec,
                          src |-> a.src, config |-> 0]
          /\ weights' = r.weights
          /\ response' = IF r.ok THEN Done ELSE Raised
  /\ UNCHANGED <<pc, steps, epoch, remaining, epochs, trainN, testN,
                 serverVars>>

FitLoad ==
  /\ pc = "Idle"
  /\ \E a \in Arguments, config \in Configs :
       LET r == set_parameters(weights, a.vec)
       IN /\ request' = [op |-> "fit", vec |-> a.vec, src |-> a.src,
                          config |-> config]
          /\ weights' = r.weights
          /\ steps' = 0
          /\ epoch' = 0
          /\ IF r.ok
             THEN /\ pc' = IF epochs > 0 THEN "Loaded" ELSE "Trained"
                  /\ remaining' = trainN
                  /\ response' = Pending
             ELSE /\ pc' = "Idle"
                  /\ remaining' = 0
                  /\ response' = Raised
  /\ UNCHANGED <<epochs, trainN, testN, serverVars>>

\* one batch: zero_grad, forward, loss, backward, optimizer.step()
TrainStep ==
  /\ pc = "Loaded"
  /\ remaining > 0
  /\ \E w \in ModelStates :
       /\ weights' = w
       /\ LET rem == remaining - BatchTake(remaining)
          IN IF rem > 0
             THEN /\ remaining' = rem
                  /\ epoch' = epoch
                  /\ pc' = pc
             ELSE \* end of the epoch: the verbose metrics are printed
                  /\ epoch' = epoch + 1
                  /\ IF epoch + 1 < epochs
                     THEN remaining' = trainN /\ pc' = pc
                     ELSE remaining' = 0 /\ pc' = "Trained"
  /\ steps' = steps + 1
  /\ UNCHANGED <<request, response, epochs, trainN, testN, serverVars>>

FitReturn ==
  /\ pc = "Trained"
  /\ response' = FitResult(weights, trainN)
  /\ pc' = "Idle"
  /\ UNCHANGED <<weights, request, steps, epoch, remaining, epochs,
                 trainN, testN, serverVars>>

EvaluateLoad ==
  /\ pc = "Idle"
  /\ \E a \in Arguments :
       LET r == set_parameters(weights, a.vec)
       IN /\ request' = [op |-> "evaluate", vec |-> a.vec, src |-> a.src,
                          config |-> 0]
          /\ weights' = r.weights
          /\ IF r.ok
             THEN pc' = "EvalLoaded" /\ response' = Pending
             ELSE pc' = "Idle" /\ response' = Raised
  /\ UNCHANGED <<steps, epoch, remaining, epochs, trainN, testN,
                 serverVars>>

EvaluateReturn ==
  /\ pc = "EvalLoaded"
  /\ LET trn == eval_backprop_loss(weights, "train")
         tst == eval_backprop_loss(weights, "test")
         trnRec == eval_reconstruction(weights, "train")
         tstRec == eval_reconstruction(weights, "test")
     IN response' = EvalResult(trn, tst, trnRec, tstRec, testN)
  /\ pc' = "Idle"
  /\ UNCHANGED <<weights, request, steps, epoch, remaining, epochs,
                 trainN, testN, serverVars>>

Next ==
  \/ GetParameters
  \/ SetParameters
  \/ FitLoad
  \/ TrainStep
  \/ FitReturn
  \/ EvaluateLoad
  \/ EvaluateReturn

Spec == Init /\ [][Next]_vars

----------------------------------------------------------------------------
(* Properties of the client handler *)

Mismatch(P) ==
  \/ Len(P) # NumParams
  \/ \E i \in 1..Min(Len(P), NumParams) : P[i].shape # ParamShapes[i]

Snapshot(w) == ReadVec(w, get_parameters(w))

\* ceil(n / b), from its definition
Ceil(n, b) == CHOOSE k \in 0..n : k * b >= n /\ (k - 1) * b < n

\* C1: a vector P obtained from get_parameters() is accepted by
\* set_parameters(P), and the next get_parameters() yields a vector equal to P:
\* same length, same order, same shape and contents for every tensor.
C1_RoundTrip ==
  (pc = "Idle" /\ request.op = "set_parameters" /\ request.src = "get")
    => /\ response.kind # "error"
       /\ Len(request.vec) = NumParams
       /\ response.kind = "params"
            => ReadVec(weights, response.params) = request.vec

C1_Witness ==
  /\ pc = "Idle"
  /\ request.op = "set_parameters"
  /\ request.src = "get"
  /\ response.kind = "params"
  /\ \E i \in 1..NumParams : request.vec[i].val # 0

\* C2: fit returns a sample_count equal to the number of samples in the training
\* partition and evaluate one equal to the number of samples in the test
\* partition.
C2_SampleCount ==
  /\ response.kind = "fit" => response.n = trainN
  /\ response.kind = "eval" => response.n = testN

\* C3: set_parameters fails whenever the supplied vector's length differs from
\* the model's parameter count or an element's shape differs from the shape of
\* the model parameter at the same position.
C3_RejectsMismatch ==
  (request.op = "set_parameters" /\ response.kind \in {"ok", "error"}
     /\ Mismatch(request.vec))
    => response.kind = "error"

\* C4: after evaluate(P, config) returns, get_parameters() equals P.
C4_EvaluateKeepsP ==
  response.kind = "eval" => Snapshot(weights) = request.vec

\* C5: a vector returned by get_parameters() or fit shares no storage with the
\* live model: no later step of the handler changes what the returned arrays
\* hold.
C5_SnapshotIsolated ==
  [][response.kind \in {"params", "fit"}
       => ReadVec(weights', response.params)
            = ReadVec(weights, response.params)]_vars

\* C7: the primary loss evaluate returns is the test-partition backprop loss on
\* the just-loaded parameters, it is the value stored under "Testing backprop
\* loss", and the metrics mapping has exactly the four named entries.
C7_PrimaryLoss ==
  response.kind = "eval"
    => /\ response.loss = eval_backprop_loss(weights, "test")
       /\ \A i \in 1..NumParams : response.loss[3][i] = request.vec[i]
       /\ <<"Testing backprop loss", response.loss>> \in response.metrics
       /\ Cardinality(response.metrics) = 4
       /\ {m[1] : m \in response.metrics}
            = {"Training backprop loss", "Testing backprop loss",
               "Training recon loss", "Testing recon loss"}

C7_Witness ==
  /\ response.kind = "eval"
  /\ \E i \in 1..NumParams : weights[i].val # 0
  /\ Cardinality({m[2] : m \in response.metrics}) = 4

\* C8: a fit call that returns has run exactly epochs * ceil(N / 128) optimizer
\* steps, with the client's start-up epoch count whatever the config payload
\* holds, and never more on the way; epochs = 1 and N = 256 give 2 steps.
C8_OptimizerSteps ==
  /\ steps <= epochs * Ceil(trainN, BatchSize)
  /\ (pc = "Trained" \/ response.kind = "fit")
       => steps = epochs * Ceil(trainN, BatchSize)
  /\ (response.kind = "fit" /\ epochs = 1 /\ trainN = 256) => steps = 2

C8_Witness ==
  /\ response.kind = "fit"
  /\ request.config # 0
  /\ epochs = 1
  /\ trainN = 256
  /\ steps = 2

\* C9: when set_parameters fails inside fit or evaluate the call raises: no
\* optimizer step runs, no result is returned, and the model's weights are
\* exactly what they were before the call.
C9_FailedLoadLeavesModel ==
  [][(pc = "Idle" /\ response'.kind = "error"
        /\ request'.op \in {"fit", "evaluate"} /\ <<request, response>>' # <<request, response>>)
       => /\ pc' = "Idle"
          /\ steps' = 0
          /\ response'.params = NoArrays
          /\ response'.metrics = {}
          /\ weights' = weights]_vars

\* what holds at each position of the handler
C10_StateInv ==
  /\ (pc = "Loaded" /\ steps = 0)
       => \A i \in 1..NumParams : weights[i] = request.vec[i]
  /\ pc \in {"Loaded", "Trained"} => request.op = "fit"
  /\ pc = "EvalLoaded" => request.op = "evaluate"
  /\ response.kind = "fit"
       => /\ pc = "Idle"
          /\ steps = epochs * LoaderLen(trainN)
          /\ Len(response.params) = NumParams
          /\ ReadVec(weights, response.params) = Snapshot(weights)
  /\ response.kind \in {"fit", "eval"}
       => pc = "Idle" /\ ENABLED FitLoad /\ ENABLED EvaluateLoad

\* what one step of the handler may change
C10_StepRule ==
  /\ (pc = "Idle" /\ pc' # "Idle") => pc' \in {"Loaded", "EvalLoaded"}
  /\ pc = "Loaded" => pc' \in {"Loaded", "Trained"} /\ steps' = steps + 1
  /\ pc = "Trained" => pc' = "Idle" /\ response'.kind = "fit"
                         /\ weights' = weights /\ steps' = steps
  /\ pc = "EvalLoaded" => pc' = "Idle" /\ response'.kind = "eval"
  /\ (response'.kind = "params" /\ response # response')
       => UNCHANGED <<weights, pc, request, steps, epoch, remaining>>

\* C10: each fit goes load, train, snapshot in that order: the whole model state
\* is the supplied vector before the first optimizer step, the weights change
\* only in a load or an optimizer step, the returned parameters are read after
\* the last step and equal a get_parameters() made right after fit returns;
\* get_parameters changes no state; after fit or evaluate the handler is Idle
\* and accepts the next request.
C10_FitCycle == []C10_StateInv /\ [][C10_StepRule]_vars

C10_Witness ==
  /\ response.kind = "fit"
  /\ pc = "Idle"
  /\ steps > 1
  /\ \E i \in 1..NumParams : weights[i] # request.vec[i]

----------------------------------------------------------------------------
(* Coordinator: one FedAvg round over the clients sampled for it *)

Clients == 1..MaxClients

UpdVectors == {w \in [1..NumParams -> [shape : Shapes, val : 0..MaxUpd]] :
                 \A i \in 1..NumParams : w[i].shape = ParamShapes[i]}

RECURSIVE SumExamples(_)
SumExamples(rs) ==
  IF rs = <<>> THEN 0 ELSE Head(rs).n + SumExamples(Tail(rs))

RECURSIVE SumLayers(_, _)
SumLayers(rs, i) ==
  IF rs = <<>> THEN 0 ELSE Head(rs).params[i].val + SumLayers(Tail(rs), i)

RECURSIVE WeightedSum(_, _)
WeightedSum(rs, i) ==
  IF rs = <<>> THEN 0
  ELSE Head(rs).params[i].val * Head(rs).n + WeightedSum(Tail(rs), i)

aggregate_unweighted(rs) ==
  [i \in 1..NumParams |->
     [shape |-> ParamShapes[i], num |-> SumLayers(rs, i), den |-> Len(rs)]]

\* FedAvg's aggregate: each layer times its client's num_examples, summed over
\* the results and divided by the total; the quotient is kept as num/den
aggregate(rs) ==
  [i \in 1..NumParams |->
     [shape |-> ParamShapes[i], num |-> WeightedSum(rs, i),
      den |-> SumExamples(rs)]]

Replied == {results[k].client : k \in 1..Len(results)}

AggInit ==
  /\ weights = [i \in 1..NumParams |-> Tensor(ParamShapes[i], 0)]
  /\ pc = "Idle"
  /\ request = NoRequest
  /\ response = Pending
  /\ steps = 0
  /\ epoch = 0
  /\ remaining = 0
  /\ epochs = 1
  /\ trainN = 256
  /\ testN = 200
  /\ ServerIdle

\* a client's fit result arrives: its parameters and its num_examples
FitReply(c) ==
  /\ srv = "collect"
  /\ c \notin Replied \cup failures
  /\ \E P \in UpdVectors, n \in SampleCounts :
       results' = Append(results, [client |-> c, params |-> P, n |-> n])
  /\ UNCHANGED <<failures, global, srv, clientVars>>

\* a client's fit raised: the round records a failure for it
FitFailure(c) ==
  /\ srv = "collect"
  /\ c \notin Replied \cup failures
  /\ failures' = failures \cup {c}
  /\ UNCHANGED <<results, global, srv, clientVars>>

\* aggregate_fit once every sampled client has answered
AggregateFit ==
  /\ srv = "collect"
  /\ Replied \cup failures = Clients
  /\ IF results = <<>>
     THEN global' = global /\ srv' = "failed"
     ELSE global' = aggregate(results) /\ srv' = "aggregated"
  /\ UNCHANGED <<results, failures, clientVars>>

AggNext ==
  \/ \E c \in Clients : FitReply(c)
  \/ \E c \in Clients : FitFailure(c)
  \/ AggregateFit

AggSpec == AggInit /\ [][AggNext]_vars

----------------------------------------------------------------------------
(* Properties of the coordinator *)

ReplyOf(c) == results[CHOOSE k \in 1..Len(results) : results[k].client = c]

RECURSIVE TotalExamples(_)
TotalExamples(S) ==
  IF S = {} THEN 0
  ELSE LET c == CHOOSE x \in S : TRUE
       IN ReplyOf(c).n + TotalExamples(S \ {c})

RECURSIVE TotalWeighted(_, _)
TotalWeighted(S, i) ==
  IF S = {} THEN 0
  ELSE LET c == CHOOSE x \in S : TRUE
       IN ReplyOf(c).n * ReplyOf(c).params[i].val + TotalWeighted(S \ {c}, i)

\* the round of the example: two clients answered, one with sample count 100
\* and value 1 at position i, the other with sample count 300 and value 3
ExampleRound(i) ==
  /\ Cardinality(Replied) = 2
  /\ \E a, b \in Replied :
       /\ ReplyOf(a).n = 100 /\ ReplyOf(a).params[i].val = 1
       /\ ReplyOf(b).n = 300 /\ ReplyOf(b).params[i].val = 3

====
